---- MODULE Spec2Model ----
(***************************************************************************)
(* AsyncEvalClient (Demos/Evaluation/scripts/eval_utils.py): a thin        *)
(* asynchronous client over a remote evaluation service.                   *)
(*                                                                         *)
(* Each coroutine of the client is a task that suspends at every `await`   *)
(* of a remote call; the remote service answers a pending call either with *)
(* a response or by raising.  Several tasks may be suspended at once: the  *)
(* client shares no state between calls, only the remote service does.     *)
(***************************************************************************)
EXTENDS Integers, Sequences, FiniteSets, TLC

\* ---------------------------------------------------------------- bounds
NumTasks == 2        \* coroutines that may be in flight at once
MaxCalls == 3        \* client calls started in one run
MaxFiles == 3        \* files the remote service is willing to hold

Tasks == 1..NumTasks

\* ---------------------------------------------------------------- inputs
FileNames == {"a.json", "b.json"}
Readable  == {"/tmp/a.json"}                       \* local paths open() can read
Paths     == Readable \cup {"/tmp/missing.json"}   \* the other one does not exist
Omitted   == "<omitted>"                           \* an argument left to its default
Purposes  == {Omitted, "fine-tune"}
EvalIds   == {"eval_1", "missing-123"}
RunIds    == {"run_1"}
ItemIds   == {"item_1"}
EvalNames == {"Eval One"}

\* ------------------------------------------------------- python values
Str(s)  == [t |-> "str", v |-> s]
None    == [t |-> "none"]
Bool(b) == [t |-> "bool", v |-> b]
Dict(d) == [t |-> "dict", v |-> d]
List(l) == [t |-> "list", v |-> l]
EmptyDict == <<>>

\* How a coroutine ends: `return v`, or an exception leaving it uncaught.
Return(v) == [kind |-> "return", val |-> v]
Raise(e)  == [kind |-> "raise", exc |-> e]

\* What the remote service answers to a pending call.
Ok(body) == [ok |-> TRUE, body |-> body]
Err(e)   == [ok |-> FALSE, exc |-> e]
Pending  == [ok |-> "pending"]

NoCall     == [op |-> "none"]
NoOutcome  == [kind |-> "none"]

VARIABLES
  files,     \* remote: the file listing, a sequence of [filename, id]
  creates,   \* history: every file the service created, with the file_name
             \* argument of the upload_file call that asked for it
  pc,        \* per task: "idle", "await_list", "await_create", "await", "done"
  call,      \* per task: the client method running and its arguments
  trace,     \* per task: the remote calls the method issued, with their answers
  opens,     \* per task: the local paths the method passed to open()
  outcome,   \* per task: how the method ended
  started    \* client calls started so far

vars == <<files, creates, pc, call, trace, opens, outcome, started>>

\* ------------------------------------------------------------- service
FileId(n) == "file-" \o ToString(n)

InitialListings ==
  { <<>>,
    << [filename |-> "a.json", id |-> FileId(1)] >>,
    << [filename |-> "b.json", id |-> FileId(1)],
       [filename |-> "a.json", id |-> FileId(2)] >>,
    << [filename |-> "a.json", id |-> FileId(1)],
       [filename |-> "a.json", id |-> FileId(2)] >> }

Init ==
  /\ files \in InitialListings
  /\ creates = <<>>
  /\ pc = [t \in Tasks |-> "idle"]
  /\ call = [t \in Tasks |-> NoCall]
  /\ trace = [t \in Tasks |-> <<>>]
  /\ opens = [t \in Tasks |-> <<>>]
  /\ outcome = [t \in Tasks |-> NoOutcome]
  /\ started = 0

\* ------------------------------------------------------------- helpers
\* A task starts the method c: nothing issued, nothing opened yet.
Start(t, c) ==
  /\ pc[t] = "idle"
  /\ started < MaxCalls
  /\ started' = started + 1
  /\ call' = [call EXCEPT ![t] = c]

\* `await self.client.<api>(**args)`: the call is issued and the task suspends.
Issued(t, api, args) ==
  trace' = [trace EXCEPT ![t] = Append(@, [api |-> api, args |-> args, resp |-> Pending])]

\* The answer to the task's pending (last) remote call is recorded.
Answered(tr, resp) == [tr EXCEPT ![Len(tr)].resp = resp]

Finish(t, o) ==
  /\ pc' = [pc EXCEPT ![t] = "done"]
  /\ outcome' = [outcome EXCEPT ![t] = o]

\* --------------------------------------------------------- upload_file
DefaultPurposeFineTune == "fine-tune"
default_purpose == "evals"

Purpose(c) == IF c.purpose = Omitted THEN default_purpose ELSE c.purpose

\* for file in files: if file.filename == file_name: return file.id
RECURSIVE scan(_, _, _)
scan(fs, file_name, i) ==
  IF i > Len(fs) THEN 0
  ELSE IF fs[i].filename = file_name THEN i
  ELSE scan(fs, file_name, i + 1)

LastMatch(fs, file_name) ==
  LET M == {i \in 1..Len(fs) : fs[i].filename = file_name}
  IN  IF M = {} THEN 0 ELSE CHOOSE i \in M : \A j \in M : j <= i

\* Index of the entry the loop returns from, 0 when it falls through.
first_match(fs, file_name) == scan(fs, file_name, 1)

\* The list call is awaited outside any try block.
ListErrorSwallowed(e) == Return(Str(""))
upload_file_list_raised(e) == Raise(e)

\* except Exception as e: ... return ''
ExceptReraises(e) == Raise(e)
upload_file_except(e) == Return(Str(""))

\* open(file_path, 'rb') is the first statement inside the try block.
OpenOutsideTry(e) == Raise(e)
upload_file_open_raised(e) == upload_file_except(e)

\* return response.id
upload_file_created(c, resp) == Return(Str(resp.id))

upload_file(t) ==
  \E n \in FileNames, p \in Paths, u \in Purposes :
    /\ Start(t, [op |-> "upload_file", file_name |-> n, file_path |-> p, purpose |-> u])
    /\ Issued(t, "files.list", <<>>)
    /\ pc' = [pc EXCEPT ![t] = "await_list"]
    /\ UNCHANGED <<files, creates, opens, outcome>>

\* files.list() raises: nothing catches it.
upload_file_list_fails(t) ==
  /\ pc[t] = "await_list"
  /\ trace' = [trace EXCEPT ![t] = Answered(@, Err("APIError"))]
  /\ Finish(t, upload_file_list_raised("APIError"))
  /\ UNCHANGED <<files, creates, call, opens, started>>

\* files.list() answers; the listing is scanned and the method goes on to the
\* next await (files.create) or ends.
upload_file_listed(t) ==
  /\ pc[t] = "await_list"
  /\ LET c == call[t]
         listed == Answered(trace[t], Ok(files))
         m == first_match(files, c.file_name)
     IN  IF m # 0
         THEN /\ trace' = [trace EXCEPT ![t] = listed]
              /\ Finish(t, Return(Str(files[m].id)))
              /\ UNCHANGED opens
         ELSE /\ opens' = [opens EXCEPT ![t] = Append(@, c.file_path)]
              /\ IF c.file_path \in Readable
                 THEN /\ trace' = [trace EXCEPT ![t] =
                            Append(listed, [api |-> "files.create",
                                            args |-> [file |-> c.file_path,
                                                      purpose |-> Purpose(c)],
                                            resp |-> Pending])]
                      /\ pc' = [pc EXCEPT ![t] = "await_create"]
                      /\ UNCHANGED outcome
                 ELSE /\ trace' = [trace EXCEPT ![t] = listed]
                      /\ Finish(t, upload_file_open_raised("FileNotFoundError"))
  /\ UNCHANGED <<files, creates, call, started>>

\* files.create() answers: the service stores the file under a name of its own
\* choosing (the call carries the file object, not file_name) and a fresh id.
upload_file_create_ok(t) ==
  /\ pc[t] = "await_create"
  /\ Len(files) < MaxFiles
  /\ \E stored \in FileNames :
       LET f == [filename |-> stored, id |-> FileId(Len(files) + 1)]
       IN  /\ files' = Append(files, f)
           /\ creates' = Append(creates, [file_name |-> call[t].file_name,
                                          filename |-> stored, id |-> f.id])
           /\ trace' = [trace EXCEPT ![t] = Answered(@, Ok(f))]
           /\ Finish(t, upload_file_created(call[t], f))
  /\ UNCHANGED <<call, opens, started>>

\* files.create() raises: the except clause turns it into ''.
upload_file_create_fails(t) ==
  /\ pc[t] = "await_create"
  /\ trace' = [trace EXCEPT ![t] = Answered(@, Err("APIError"))]
  /\ Finish(t, upload_file_except("APIError"))
  /\ UNCHANGED <<files, creates, call, opens, started>>

\* The caller has taken the result; the task is free for another call.
Collect(t) ==
  /\ pc[t] = "done"
  /\ pc' = [pc EXCEPT ![t] = "idle"]
  /\ call' = [call EXCEPT ![t] = NoCall]
  /\ trace' = [trace EXCEPT ![t] = <<>>]
  /\ opens' = [opens EXCEPT ![t] = <<>>]
  /\ outcome' = [outcome EXCEPT ![t] = NoOutcome]
  /\ UNCHANGED <<files, creates, started>>

NextUpload ==
  \E t \in Tasks :
    \/ upload_file(t)
    \/ upload_file_list_fails(t)
    \/ upload_file_listed(t)
    \/ upload_file_create_ok(t)
    \/ upload_file_create_fails(t)
    \/ Collect(t)

SpecUpload == Init /\ [][NextUpload]_vars

\* ------------------------------------------------ evaluations and runs
EvalRecord(eval_id) == [id |-> eval_id, name |-> "Eval One"]
RunRecord(eval_id, run_id) == [id |-> run_id, eval_id |-> eval_id, status |-> "queued"]
ItemRecord(run_id, item_id) == [id |-> item_id, run_id |-> run_id, status |-> "pass"]

\* The bodies the service may answer a call with (what .to_dict() or .data
\* of the response gives).  A created record may come back without an id.
Bodies(api, args) ==
  CASE api = "evals.create" ->
         { [id |-> "eval_1", name |-> args.name], [name |-> args.name] }
    [] api = "evals.list" ->
         { <<>>, << EvalRecord("eval_1") >> }
    [] api = "evals.retrieve" ->
         { EvalRecord(args.eval_id) }
    [] api = "evals.runs.create" ->
         { [id |-> "run_1", eval_id |-> args.eval_id, name |-> args.name],
           [eval_id |-> args.eval_id, name |-> args.name] }
    [] api = "evals.runs.list" ->
         { <<>>, << RunRecord(args.eval_id, "run_1") >> }
    [] api = "evals.runs.retrieve" ->
         { RunRecord(args.eval_id, args.run_id) }
    [] api = "evals.runs.output_items.list" ->
         { <<>>, << ItemRecord(args.run_id, "item_1") >> }
    [] api = "evals.runs.output_items.retrieve" ->
         { ItemRecord(args.run_id, args.output_item_id) }
    [] OTHER -> { [deleted |-> TRUE] }

\* try: response = await evals.create(...); eval_id = response.to_dict()["id"];
\* return eval_id -- except Exception: return None
create_eval_sdk_result(c, resp) ==
  IF resp.ok /\ "id" \in DOMAIN resp.body
  THEN Return(Str(resp.body.id))
  ELSE Return(None)

\* response = await evals.list(); return response.data -- no try block
ListAbsorbs(c, resp) ==
  IF resp.ok THEN Return(List(resp.body)) ELSE Return(List(<<>>))
get_eval_list_sdk_result(c, resp) ==
  IF resp.ok THEN Return(List(resp.body)) ELSE Raise(resp.exc)

\* f"Unknown Evaluation ({eval_id})"
UnknownNameWithoutId(eval_id) == "Unknown Evaluation"
unknown_evaluation_name(eval_id) == "Unknown Evaluation (" \o eval_id \o ")"

\* try: return (await evals.retrieve(eval_id)).to_dict()
\* except Exception: return {"name": f"Unknown Evaluation ({eval_id})"}
get_eval_sdk_result(c, resp) ==
  IF resp.ok THEN Return(Dict(resp.body))
  ELSE Return(Dict([name |-> unknown_evaluation_name(c.eval_id)]))

\* try: await evals.delete(eval_id); return True -- except Exception: return False
DeleteAlwaysTrue(c, resp) == Return(Bool(TRUE))
delete_eval_sdk_result(c, resp) ==
  IF resp.ok THEN Return(Bool(TRUE)) ELSE Return(Bool(FALSE))

\* try: response = await evals.runs.create(...);
\* response.to_dict().get("id", "Unknown ID"); return response.to_dict()
\* except Exception: return {}
CreateRunNoneOnError(c, resp) ==
  IF resp.ok THEN Return(Dict(resp.body)) ELSE Return(None)
create_eval_run_sdk_result(c, resp) ==
  IF resp.ok THEN Return(Dict(resp.body)) ELSE Return(Dict(EmptyDict))

\* response = await evals.runs.list(eval_id); return response.data -- no try block
get_eval_run_list_sdk_result(c, resp) ==
  IF resp.ok THEN Return(List(resp.body)) ELSE Raise(resp.exc)

\* try: return (await evals.runs.retrieve(...)).to_dict() -- except Exception: return {}
get_eval_run_sdk_result(c, resp) ==
  IF resp.ok THEN Return(Dict(resp.body)) ELSE Return(Dict(EmptyDict))

\* try: return (await evals.runs.output_items.list(...)).data
\* except Exception: return []
get_eval_run_output_items_sdk_result(c, resp) ==
  IF resp.ok THEN Return(List(resp.body)) ELSE Return(List(<<>>))

\* try: return (await evals.runs.output_items.retrieve(...)).to_dict()
\* except Exception: return {}
get_eval_run_output_item_sdk_result(c, resp) ==
  IF resp.ok THEN Return(Dict(resp.body)) ELSE Return(Dict(EmptyDict))

\* try: await evals.runs.cancel(...); return True -- except Exception: return False
cancel_eval_run_sdk_result(c, resp) ==
  IF resp.ok THEN Return(Bool(TRUE)) ELSE Return(Bool(FALSE))

\* try: await evals.runs.delete(...); return True -- except Exception: return False
delete_eval_run_sdk_result(c, resp) ==
  IF resp.ok THEN Return(Bool(TRUE)) ELSE Return(Bool(FALSE))

\* What the suspended method does with the answer to its one remote call.
Result(c, resp) ==
  CASE c.op = "create_eval_sdk" -> create_eval_sdk_result(c, resp)
    [] c.op = "get_eval_list_sdk" -> get_eval_list_sdk_result(c, resp)
    [] c.op = "get_eval_sdk" -> get_eval_sdk_result(c, resp)
    [] c.op = "delete_eval_sdk" -> delete_eval_sdk_result(c, resp)
    [] c.op = "create_eval_run_sdk" -> create_eval_run_sdk_result(c, resp)
    [] c.op = "get_eval_run_list_sdk" -> get_eval_run_list_sdk_result(c, resp)
    [] c.op = "get_eval_run_sdk" -> get_eval_run_sdk_result(c, resp)
    [] c.op = "get_eval_run_output_items_sdk" ->
         get_eval_run_output_items_sdk_result(c, resp)
    [] c.op = "get_eval_run_output_item_sdk" ->
         get_eval_run_output_item_sdk_result(c, resp)
    [] c.op = "cancel_eval_run_sdk" -> cancel_eval_run_sdk_result(c, resp)
    [] c.op = "delete_eval_run_sdk" -> delete_eval_run_sdk_result(c, resp)

\* The started method suspends on its one remote call.
Invoke(t, api, args) ==
  /\ Issued(t, api, args)
  /\ pc' = [pc EXCEPT ![t] = "await"]
  /\ UNCHANGED <<files, creates, opens, outcome>>

create_eval_sdk(t) ==
  \E n \in EvalNames :
    /\ Start(t, [op |-> "create_eval_sdk", name |-> n,
                 data_source_config |-> "config", testing_criteria |-> "criteria"])
    /\ Invoke(t, "evals.create",
              [name |-> n, data_source_config |-> "config",
               testing_criteria |-> "criteria"])

get_eval_list_sdk(t) ==
  /\ Start(t, [op |-> "get_eval_list_sdk"])
  /\ Invoke(t, "evals.list", <<>>)

get_eval_sdk(t) ==
  \E e \in EvalIds :
    /\ Start(t, [op |-> "get_eval_sdk", eval_id |-> e])
    /\ Invoke(t, "evals.retrieve", [eval_id |-> e])

delete_eval_sdk(t) ==
  \E e \in EvalIds :
    /\ Start(t, [op |-> "delete_eval_sdk", eval_id |-> e])
    /\ Invoke(t, "evals.delete", [eval_id |-> e])

create_eval_run_sdk(t) ==
  \E e \in EvalIds :
    /\ Start(t, [op |-> "create_eval_run_sdk", eval_id |-> e, name |-> "run",
                 data_source |-> "source", metadata |-> None])
    /\ Invoke(t, "evals.runs.create",
              [eval_id |-> e, name |-> "run", metadata |-> None,
               data_source |-> "source"])

get_eval_run_list_sdk(t) ==
  \E e \in EvalIds :
    /\ Start(t, [op |-> "get_eval_run_list_sdk", eval_id |-> e])
    /\ Invoke(t, "evals.runs.list", [eval_id |-> e])

get_eval_run_sdk(t) ==
  \E e \in EvalIds, r \in RunIds :
    /\ Start(t, [op |-> "get_eval_run_sdk", eval_id |-> e, run_id |-> r])
    /\ Invoke(t, "evals.runs.retrieve", [eval_id |-> e, run_id |-> r])

get_eval_run_output_items_sdk(t) ==
  \E e \in EvalIds, r \in RunIds :
    /\ Start(t, [op |-> "get_eval_run_output_items_sdk", eval_id |-> e, run_id |-> r])
    /\ Invoke(t, "evals.runs.output_items.list", [eval_id |-> e, run_id |-> r])

get_eval_run_output_item_sdk(t) ==
  \E e \in EvalIds, r \in RunIds, i \in ItemIds :
    /\ Start(t, [op |-> "get_eval_run_output_item_sdk", eval_id |-> e,
                 run_id |-> r, item_id |-> i])
    /\ Invoke(t, "evals.runs.output_items.retrieve",
              [eval_id |-> e, run_id |-> r, output_item_id |-> i])

cancel_eval_run_sdk(t) ==
  \E e \in EvalIds, r \in RunIds :
    /\ Start(t, [op |-> "cancel_eval_run_sdk", eval_id |-> e, run_id |-> r])
    /\ Invoke(t, "evals.runs.cancel", [eval_id |-> e, run_id |-> r])

delete_eval_run_sdk(t) ==
  \E e \in EvalIds, r \in RunIds :
    /\ Start(t, [op |-> "delete_eval_run_sdk", eval_id |-> e, run_id |-> r])
    /\ Invoke(t, "evals.runs.delete", [eval_id |-> e, run_id |-> r])

\* The awaited call answers and the method runs to its return.
remote_call_answers(t) ==
  /\ pc[t] = "await"
  /\ LET pending == trace[t][Len(trace[t])]
     IN  \E body \in Bodies(pending.api, pending.args) :
           /\ trace' = [trace EXCEPT ![t] = Answered(@, Ok(body))]
           /\ Finish(t, Result(call[t], Ok(body)))
  /\ UNCHANGED <<files, creates, call, opens, started>>

\* The awaited call raises (rejected by the service, or the transport failed).
remote_call_raises(t) ==
  /\ pc[t] = "await"
  /\ trace' = [trace EXCEPT ![t] = Answered(@, Err("APIError"))]
  /\ Finish(t, Result(call[t], Err("APIError")))
  /\ UNCHANGED <<files, creates, call, opens, started>>

NextEval ==
  \E t \in Tasks :
    \/ create_eval_sdk(t)
    \/ get_eval_list_sdk(t)
    \/ get_eval_sdk(t)
    \/ delete_eval_sdk(t)
    \/ create_eval_run_sdk(t)
    \/ get_eval_run_list_sdk(t)
    \/ get_eval_run_sdk(t)
    \/ get_eval_run_output_items_sdk(t)
    \/ get_eval_run_output_item_sdk(t)
    \/ cancel_eval_run_sdk(t)
    \/ delete_eval_run_sdk(t)
    \/ remote_call_answers(t)
    \/ remote_call_raises(t)
    \/ Collect(t)

\* The evaluation methods never touch the file listing: one listing suffices.
InitEval == Init /\ files = <<>>

SpecEval == InitEval /\ [][NextEval]_vars

Next == NextUpload \/ NextEval

Spec == Init /\ [][Next]_vars

\* ============================================================ properties
Done(t, op) == pc[t] = "done" /\ call[t].op = op

\* The remote calls a finished method issued, in order.
Apis(t) == [i \in 1..Len(trace[t]) |-> trace[t][i].api]

\* upload_file has finished and its files.list call answered with a listing.
Listed(t) == Done(t, "upload_file") /\ trace[t][1].resp.ok = TRUE
Listing(t) == trace[t][1].resp.body
Matches(t) == {i \in 1..Len(Listing(t)) : Listing(t)[i].filename = call[t].file_name}

\* upload_file has finished after a files.create call that answered / raised.
CreateAnswered(t) == Listed(t) /\ Len(trace[t]) >= 2 /\ trace[t][2].resp.ok = TRUE
CreateRaised(t)   == Listed(t) /\ Len(trace[t]) >= 2 /\ trace[t][2].resp.ok = FALSE

GivenPurpose(t) == IF call[t].purpose = Omitted THEN "evals" ELSE call[t].purpose

\* C1: when file_name matches no entry of the listing, the local file opens
\* and no remote call raises, upload_file issues exactly one list call followed
\* by exactly one create call with the given purpose (default "evals") and
\* returns the id of that create call's response.
C1_UploadCreatesOnce ==
  \A t \in Tasks :
    ( /\ Listed(t)
      /\ Matches(t) = {}
      /\ call[t].file_path \in Readable
      /\ \A i \in 1..Len(trace[t]) : trace[t][i].resp.ok = TRUE )
    => /\ Apis(t) = <<"files.list", "files.create">>
       /\ trace[t][2].args.purpose = GivenPurpose(t)
       /\ outcome[t] = Return(Str(trace[t][2].resp.body.id))

C1_Witness ==
  \E t \in Tasks :
    /\ Listed(t) /\ Matches(t) = {} /\ CreateAnswered(t)
    /\ call[t].purpose = Omitted
    /\ Listing(t) # <<>>
    /\ outcome[t].kind = "return"

\* C2: when file_name matches an entry of the listing, upload_file issues no
\* create call, never opens the local path (whether it is readable or not), and
\* returns the id of the first matching entry in listing order.
C2_ReuseFirstMatch ==
  \A t \in Tasks :
    (Listed(t) /\ Matches(t) # {})
    => /\ Apis(t) = <<"files.list">>
       /\ opens[t] = <<>>
       /\ \E i \in Matches(t) :
            /\ \A j \in Matches(t) : i <= j
            /\ outcome[t] = Return(Str(Listing(t)[i].id))

C2_Witness ==
  \E t \in Tasks :
    /\ Listed(t)
    /\ Cardinality(Matches(t)) = 2
    /\ call[t].file_path \notin Readable
    /\ outcome[t].kind = "return"

\* C3: for a name the remote did not hold at the start, the upload_file calls
\* made with that file_name, sequential or interleaved, create at most one
\* remote file of that name.
CreatedIds == {creates[i].id : i \in 1..Len(creates)}
InitiallyAbsent(n) ==
  \A i \in 1..Len(files) : files[i].filename = n => files[i].id \in CreatedIds
C3_AtMostOneCreate ==
  \A n \in FileNames :
    InitiallyAbsent(n)
    => Cardinality({i \in 1..Len(creates) :
                      creates[i].file_name = n /\ creates[i].filename = n}) <= 1

\* C4 as stated: when no entry matches and the local path cannot be opened, the
\* I/O error leaves upload_file uncaught and no create call is issued.
C4_OpenErrorPropagates ==
  \A t \in Tasks :
    (Listed(t) /\ Matches(t) = {} /\ call[t].file_path \notin Readable)
    => /\ outcome[t].kind = "raise"
       /\ Apis(t) = <<"files.list">>

\* C4 as amended: when no entry matches and the local path cannot be opened,
\* the I/O error is caught by the except clause: upload_file returns '' and no
\* create call is issued.
C4_OpenErrorAbsorbed ==
  \A t \in Tasks :
    (Listed(t) /\ Matches(t) = {} /\ call[t].file_path \notin Readable)
    => /\ outcome[t] = Return(Str(""))
       /\ opens[t] = <<call[t].file_path>>
       /\ Apis(t) = <<"files.list">>

C4_Witness ==
  \E t \in Tasks :
    /\ Listed(t) /\ Matches(t) = {} /\ call[t].file_path \notin Readable
    /\ opens[t] # <<>>

\* C5: when the create call raises, upload_file returns '' without raising and
\* issues no further remote call; and '' is returned only when the upload
\* failed, never when an entry was reused or a create call answered.
C5_CreateErrorAbsorbed ==
  \A t \in Tasks :
    /\ CreateRaised(t)
       => /\ outcome[t] = Return(Str(""))
          /\ Apis(t) = <<"files.list", "files.create">>
    /\ (Done(t, "upload_file") /\ outcome[t] = Return(Str("")))
       => /\ Listed(t) /\ Matches(t) = {}
          /\ ~CreateAnswered(t)
          /\ CreateRaised(t) \/ call[t].file_path \notin Readable
    /\ (Listed(t) /\ (Matches(t) # {} \/ CreateAnswered(t)))
       => /\ outcome[t].kind = "return"
          /\ outcome[t].val.t = "str"
          /\ outcome[t].val.v # ""

C5_Witness ==
  \E t \in Tasks : CreateRaised(t) /\ outcome[t].kind = "return"

ApiOf(op) ==
  CASE op = "create_eval_sdk" -> "evals.create"
    [] op = "get_eval_list_sdk" -> "evals.list"
    [] op = "get_eval_sdk" -> "evals.retrieve"
    [] op = "delete_eval_sdk" -> "evals.delete"
    [] op = "create_eval_run_sdk" -> "evals.runs.create"
    [] op = "get_eval_run_list_sdk" -> "evals.runs.list"
    [] op = "get_eval_run_sdk" -> "evals.runs.retrieve"
    [] op = "get_eval_run_output_items_sdk" -> "evals.runs.output_items.list"
    [] op = "get_eval_run_output_item_sdk" -> "evals.runs.output_items.retrieve"
    [] op = "cancel_eval_run_sdk" -> "evals.runs.cancel"
    [] op = "delete_eval_run_sdk" -> "evals.runs.delete"

\* The method has finished after its remote call answered / raised.
Answer(t) == trace[t][1].resp
Succeeded(t, op) == Done(t, op) /\ Answer(t).ok = TRUE
Failed(t, op)    == Done(t, op) /\ Answer(t).ok = FALSE

OneCall(t) == Apis(t) = << ApiOf(call[t].op) >>

DeleteOps == {"delete_eval_sdk", "delete_eval_run_sdk", "cancel_eval_run_sdk"}

\* C7: delete_eval_sdk, delete_eval_run_sdk and cancel_eval_run_sdk each issue
\* exactly one remote call, whatever the service holds, never raise, and return
\* True if and only if that call did not raise.
C7_DeleteCancelBoolean ==
  \A t \in Tasks :
    call[t].op \in DeleteOps
    => /\ OneCall(t)
       /\ trace[t][1].args.eval_id = call[t].eval_id
       /\ pc[t] = "done"
          => /\ outcome[t].kind = "return"
             /\ outcome[t].val.t = "bool"
             /\ outcome[t].val.v = TRUE <=> Answer(t).ok = TRUE

C7_Witness ==
  /\ \E t \in Tasks : Failed(t, "delete_eval_sdk") /\ outcome[t] = Return(Bool(FALSE))
  /\ \E t \in Tasks : Succeeded(t, "cancel_eval_run_sdk") /\ outcome[t] = Return(Bool(TRUE))

\* C8: when the retrieve call raises, get_eval_sdk returns the record whose one
\* field is name = "Unknown Evaluation (<eval_id>)"; when it answers, get_eval_sdk
\* returns the service's record, never the placeholder.
Placeholder(eval_id) == [name |-> "Unknown Evaluation (" \o eval_id \o ")"]
ListingOps ==
  {"get_eval_list_sdk", "get_eval_run_list_sdk", "get_eval_run_output_items_sdk"}
EvalOps ==
  ListingOps \cup DeleteOps \cup
  {"create_eval_sdk", "get_eval_sdk", "create_eval_run_sdk", "get_eval_run_sdk",
   "get_eval_run_output_item_sdk"}

\* C9 as stated: every listing method absorbs a failure of its remote call and
\* returns the empty sequence.
C9_ListingsAbsorb ==
  \A t \in Tasks :
    (call[t].op \in ListingOps /\ pc[t] = "done" /\ Answer(t).ok = FALSE)
    => outcome[t] = Return(List(<<>>))

\* C9 as amended: of the listing methods only get_eval_run_output_items_sdk
\* absorbs the failure (returning the empty sequence); get_eval_list_sdk and
\* get_eval_run_list_sdk let it propagate, and they are the only evaluation
\* methods that do.
C9_ListingsPropagate ==
  \A t \in Tasks :
    (call[t].op \in EvalOps /\ pc[t] = "done" /\ Answer(t).ok = FALSE)
    => /\ OneCall(t)
       /\ call[t].op = "get_eval_run_output_items_sdk"
          => outcome[t] = Return(List(<<>>))
       /\ call[t].op \in {"get_eval_list_sdk", "get_eval_run_list_sdk"}
          <=> outcome[t] = Raise(Answer(t).exc)
       /\ call[t].op \notin {"get_eval_list_sdk", "get_eval_run_list_sdk"}
          <=> outcome[t].kind = "return"

C9_Witness ==
  /\ \E t \in Tasks : Failed(t, "get_eval_list_sdk") /\ outcome[t].kind = "raise"
  /\ \E t \in Tasks :
       Failed(t, "get_eval_run_output_items_sdk") /\ outcome[t].kind = "return"

RecordOps == {"create_eval_run_sdk", "get_eval_run_sdk", "get_eval_run_output_item_sdk"}

\* C10: create_eval_sdk, create_eval_run_sdk, get_eval_run_sdk and
\* get_eval_run_output_item_sdk each issue exactly one remote call and never
\* raise; create_eval_sdk returns the new id, or None on an error or a response
\* without an id; the others return the record, or the empty mapping on an error.
C10_RecordResults ==
  \A t \in Tasks :
    /\ call[t].op \in RecordOps \cup {"create_eval_sdk"} => OneCall(t)
    /\ Done(t, "create_eval_sdk")
       => IF Answer(t).ok /\ "id" \in DOMAIN Answer(t).body
          THEN outcome[t] = Return(Str(Answer(t).body.id))
          ELSE outcome[t] = Return(None)
    /\ (pc[t] = "done" /\ call[t].op \in RecordOps)
       => /\ outcome[t].kind = "return"
          /\ outcome[t].val.t = "dict"
          /\ IF Answer(t).ok
             THEN outcome[t].val.v = Answer(t).body
             ELSE DOMAIN outcome[t].val.v = {}

C10_Witness ==
  /\ \E t \in Tasks :
       /\ Succeeded(t, "create_eval_sdk")
       /\ "id" \notin DOMAIN Answer(t).body
       /\ outcome[t].kind = "return"
  /\ \E t \in Tasks : Failed(t, "create_eval_run_sdk") /\ outcome[t].kind = "return"
====
